---- MODULE Spec2Model ----
(***************************************************************************)
(* The expression lowerer of the shiika compiler (src/code_gen/            *)
(* gen_exprs.rs) and the class-name helpers (src/names.rs).                *)
(*                                                                         *)
(* The lowerer is a recursive descent over a HIR tree that appends         *)
(* instructions to the block the LLVM builder is positioned on.  The       *)
(* builder, the code-generation context and the outcome of a gen_* call    *)
(* are threaded through the operators below as one record `st`:           *)
(*   blocks   the basic blocks of ctx.function, in creation order          *)
(*   cursor   the builder's insert block                                   *)
(*   next     the number the next emitted instruction gets                 *)
(*   lvars, current_loop_end, function_origin   the fields of ctx          *)
(*   decls    the functions added to the module by gen_lambda_expr         *)
(*   res      what the last gen_* call returned (Ok value, Err, panic)     *)
(*   lex, h_* history: what was lowered, for stating the properties        *)
(***************************************************************************)
EXTENDS Integers, Sequences, FiniteSets, TLC

(* ------------------------------ bounds -------------------------------- *)
\* nesting depth of the generated HIR trees
MaxDepth == 2
\* number of lambda parameters (captures array included)
MaxParams == 2
\* number of name parts a class fullname is put together from
MaxParts == 3

MaxArg == 3

(* ------------------------- names.rs, ty.rs ---------------------------- *)
ty_raw(name) == [fullname |-> name, body |-> "TyRaw", base |-> name]

ty_meta(name) == [fullname |-> "Meta:" \o name, body |-> "TyMeta", base |-> name]

ty_ary(t) == [fullname |-> "Array<" \o t.fullname \o ">", body |-> "TySpe", base |-> "Array"]

starts_with(s, p) == Len(s) >= Len(p) /\ SubSeq(s, 1, Len(p)) = p

\* String::replace_range(lo..=hi, ""), 0-based inclusive byte range
replace_range_empty(s, lo, hi) == SubSeq(s, 1, lo) \o SubSeq(s, hi + 2, Len(s))

instance_ty(c) == ty_raw(c)

class_ty(c) == ty_meta(c)

is_meta(c) == starts_with(c, "Meta:")

\* the last index of the range to_ty removes, 0..=4
StripTo == 4

to_ty_short(c) ==
    IF is_meta(c) THEN ty_meta(replace_range_empty(c, 0, StripTo - 1))
    ELSE instance_ty(c)

to_ty(c) ==
    IF is_meta(c) THEN ty_meta(replace_range_empty(c, 0, StripTo))
    ELSE instance_ty(c)

meta_name(c) == "Meta:" \o c

(* ---------------------- LLIR types and values ------------------------- *)
Machine(t) == [base |-> t, ptr |-> FALSE]

Ptr(cls) == [base |-> cls, ptr |-> TRUE]

i1_type == Machine("i1")

i32_type == Machine("i32")

i8ptr_type == Ptr("i8")

\* The Type Mapper: every language-level value is a pointer to the struct
\* of its class
llvm_type(ty) == Ptr(ty.fullname)

NoValue == [kind |-> "none", ty |-> Machine("none"), n |-> 0]

const_int(ty, n) == [kind |-> "const", ty |-> ty, n |-> n]

InstValue(ty, id) == [kind |-> "inst", ty |-> ty, n |-> id]

ParamValue(ty, i) == [kind |-> "param", ty |-> ty, n |-> i]


Range(seq) == { seq[i] : i \in DOMAIN seq }

(* ----------------------------- the HIR -------------------------------- *)
\* A HirExpression: the variant `node`, its type `ty`, and the variant's
\* fields: a name, a number (index, value, parameter count, 1 for Some),
\* and up to three lists of sub-expressions.
Hir(node, ty, name, n, a, b, c) ==
    [node |-> node, ty |-> ty, name |-> name, n |-> n, a |-> a, b |-> b, c |-> c]

(* ---------------------------- the builder ----------------------------- *)
Ok(st, v) == [st EXCEPT !.res = [kind |-> "Ok", val |-> v, msg |-> ""]]

Err(st, m) == [st EXCEPT !.res = [kind |-> "Err", val |-> NoValue, msg |-> m]]

Panic(st, m) == [st EXCEPT !.res = [kind |-> "Panic", val |-> NoValue, msg |-> m]]

IsOk(st) == st.res.kind = "Ok"

\* context.append_basic_block(ctx.function, name); the new block is the last
append_basic_block(st, name) ==
    [st EXCEPT !.blocks = Append(@, [name |-> name, insts |-> <<>>])]

LastBlock(st) == Len(st.blocks)

position_at_end(st, blk) == [st EXCEPT !.cursor = blk]

get_insert_block(st) == st.cursor

\* builder.build_*: the instruction goes to the end of the insert block,
\* whatever that block already holds
Build(st, op, ty, ops, tgts, name) ==
    [st EXCEPT !.blocks[st.cursor].insts =
                   Append(@, [id |-> st.next, op |-> op, ty |-> ty, ops |-> ops,
                              tgts |-> tgts, name |-> name]),
               !.next = @ + 1]

\* the value of the instruction Build has just emitted into s
Built(s, ty) == InstValue(ty, s.next - 1)

build_unconditional_branch(st, blk) ==
    Build(st, "br", Machine("void"), <<>>, <<blk>>, "")

build_conditional_branch(st, cond, then_block, else_block) ==
    Build(st, "condbr", Machine("void"), <<cond>>, <<then_block, else_block>>, "")

build_phi_incoming(st, ty, name, vals, blks) ==
    Build(st, "phi", ty, vals, blks, name)

(* -------------------- boxing, allocation, globals --------------------- *)
unbox_bool(st, b) == Build(st, "unbox_bool", i1_type, <<b>>, <<>>, "")

box_bool(st, i) == Build(st, "box_bool", llvm_type(ty_raw("Bool")), <<i>>, <<>>, "")

box_int(st, i) == Build(st, "box_int", llvm_type(ty_raw("Int")), <<i>>, <<>>, "")

box_float(st, f) == Build(st, "box_float", llvm_type(ty_raw("Float")), <<f>>, <<>>, "")

allocate_sk_obj(st, class_fullname, reg_name) ==
    Build(st, "allocate_sk_obj", llvm_type(to_ty(class_fullname)), <<>>, <<>>, reg_name)

build_ivar_store(st, object, idx, value, name) ==
    Build(st, "ivar_store", Machine("void"), <<object, value, const_int(i32_type, idx)>>,
          <<>>, name)

\* the instance variables of the class being compiled: index -> type
IVarTy(idx) == ty_raw("Int")

build_ivar_load(st, object, idx, name) ==
    Build(st, "ivar_load", llvm_type(IVarTy(idx)), <<object, const_int(i32_type, idx)>>,
          <<>>, name)

\* the constants that have a module global, and their types
FnClasses == {"Fn0", "Fn1", "Fn2", "Fn3", "Fn4"}

GlobalTy(name) ==
    CASE name = "::Void" -> ty_raw("Void")
      [] name = "::A" -> ty_raw("Int")
      [] name \in {"::" \o f : f \in FnClasses} -> ty_meta(SubSeq(name, 3, Len(name)))
      [] OTHER -> ty_raw("")

Globals == {"::Void", "::A"} \cup {"::" \o f : f \in FnClasses}

\* the LLIR functions of the module and the language type they return;
\* a function of Void type returns no LLIR value
FuncRet(name) ==
    CASE name = "Int#+" -> ty_raw("Int")
      [] name = "Int#between" -> ty_raw("Bool")
      [] name = "Object#putd" -> ty_raw("Void")
      [] name = "Array#nth" -> ty_raw("Object")
      [] name \in {"Meta:" \o f \o "#new" : f \in FnClasses} ->
             ty_raw(SubSeq(name, 6, Len(name) - 4))
      [] OTHER -> ty_raw("")

format_usize(k) ==
    CASE k = 0 -> "0" [] k = 1 -> "1" [] k = 2 -> "2" [] k = 3 -> "3" [] OTHER -> "4"


(* --------------------------- leaves of gen_expr ------------------------ *)
\* module.get_global(name) or the [BUG] panic, then a load of the global
gen_const_ref(st, fullname) ==
    IF fullname \notin Globals
    THEN Panic(st, "[BUG] global for Constant not created")
    ELSE LET s1 == Build(st, "load", llvm_type(GlobalTy(fullname)), <<>>, <<>>, fullname)
         IN  Ok(s1, Built(s1, llvm_type(GlobalTy(fullname))))

\* get_llvm_func(func_name), build_call; a call that yields no value is
\* replaced by a reference to ::Void
gen_llvm_func_call(st, func_name, receiver_value, arg_values) ==
    IF FuncRet(func_name).fullname = ""
    THEN Panic(st, "[BUG] get_llvm_func: not found")
    ELSE IF FuncRet(func_name).fullname = "Void"
    THEN gen_const_ref(Build(st, "call", Machine("void"), <<receiver_value>> \o arg_values,
                             <<>>, func_name),
                       "::Void")
    ELSE LET s1 == Build(st, "call", llvm_type(FuncRet(func_name)),
                         <<receiver_value>> \o arg_values, <<>>, func_name)
         IN  Ok(s1, Built(s1, llvm_type(FuncRet(func_name))))

\* ctx.function_params of the function being compiled: a method m(a: Int),
\* a lambda fn(a: Int) with its captures array, and user_main, which has none
HasFunctionParams(origin) == origin \in {"Method", "Lambda"}

FunctionParams(origin) ==
    CASE origin = "Method" -> <<ty_raw("Int")>>
      [] origin = "Lambda" -> <<ty_raw("Int"), ty_ary(ty_raw("Object"))>>
      [] OTHER -> <<>>

\* the LLIR parameters of ctx.function, 0-based index i at position i + 1
LlvmParams(origin) ==
    CASE origin = "Method" -> <<llvm_type(ty_raw("Object")), llvm_type(ty_raw("Int"))>>
      [] origin = "Lambda" -> <<llvm_type(ty_raw("Object")),
                                llvm_type(ty_ary(ty_raw("Object")))>>
      [] OTHER -> <<i32_type, Ptr("i8*")>>

gen_arg_ref(st, idx) ==
    CASE st.function_origin = "Method" ->
             IF idx + 2 > Len(LlvmParams("Method"))
             THEN Panic(st, "called Option::unwrap() on a None value")
             ELSE Ok(st, ParamValue(LlvmParams("Method")[idx + 2], idx + 1))
      [] st.function_origin = "Lambda" ->
             IF idx + 1 > Len(LlvmParams("Lambda"))
             THEN Panic(st, "gen_arg_ref: no param of idx")
             ELSE LET obj == ParamValue(LlvmParams("Lambda")[idx + 1], idx)
                      ty == llvm_type(FunctionParams("Lambda")[idx + 1])
                      s1 == Build(st, "bitcast", ty, <<obj>>, <<>>, "")
                  IN  Ok(s1, Built(s1, ty))
      [] OTHER -> Panic(st, "[BUG] arg ref in invalid place")

\* the slot type of an alloca of type t, and back
SlotOf(t) == Ptr(t.base \o "*")

Pointee(t) == Ptr(SubSeq(t.base, 1, Len(t.base) - 1))

gen_lvar_ref(st, name) ==
    IF st.lvars[name].kind = "none"
    THEN Panic(st, "[BUG] lvar not declared")
    ELSE LET ptr == st.lvars[name]
             s1 == Build(st, "load", Pointee(ptr.ty), <<ptr>>, <<>>, name)
         IN  Ok(s1, Built(s1, Pointee(ptr.ty)))

\* the function is user_main exactly when lowering the top-level expressions
gen_self_expression(st) ==
    IF st.function_origin = "TopLevel"
    THEN Ok(st, [kind |-> "the_main", ty |-> llvm_type(ty_raw("Object")), n |-> 0])
    ELSE Ok(st, ParamValue(LlvmParams(st.function_origin)[1], 0))

gen_ivar_ref(st, name, idx) ==
    LET s0 == gen_self_expression(st)
    IN  IF ~IsOk(s0) THEN s0
        ELSE LET s1 == build_ivar_load(s0, s0.res.val, idx, name)
             IN  Ok(s1, Built(s1, llvm_type(IVarTy(idx))))

gen_float_literal(st, value) ==
    LET s1 == box_float(st, [kind |-> "const", ty |-> Machine("f64"), n |-> value])
    IN  Ok(s1, Built(s1, llvm_type(ty_raw("Float"))))

gen_decimal_literal(st, value) ==
    LET s1 == box_int(st, const_int(i32_type, value))
    IN  Ok(s1, Built(s1, llvm_type(ty_raw("Int"))))

\* the byte length of string literal idx of the pool
StrLiteralLen(idx) == idx + 1

gen_string_literal(st, idx) ==
    LET s1 == allocate_sk_obj(st, "String", "str")
        sk_str == Built(s1, llvm_type(to_ty("String")))
        global == [kind |-> "global", ty |-> Ptr("str"), n |-> idx]
        s2 == Build(s1, "bitcast", i8ptr_type, <<global>>, <<>>, "")
        s3 == build_ivar_store(s2, sk_str, 0, Built(s2, i8ptr_type), "@ptr")
        s4 == box_int(s3, const_int(i32_type, StrLiteralLen(idx)))
        s5 == build_ivar_store(s4, sk_str, 1, Built(s4, llvm_type(ty_raw("Int"))), "@bytesize")
    IN  Ok(s5, sk_str)

gen_boolean_literal(st, value) ==
    LET n == IF value = 1 THEN 1 ELSE 0
        s1 == box_bool(st, const_int(i1_type, n))
    IN  Ok(s1, Built(s1, llvm_type(ty_raw("Bool"))))

gen_class_literal(st, fullname, str_literal_idx) ==
    LET s1 == allocate_sk_obj(st, meta_name(fullname), "class_" \o fullname)
        cls_obj == Built(s1, llvm_type(to_ty(meta_name(fullname))))
        s2 == gen_string_literal(s1, str_literal_idx)
        s3 == build_ivar_store(s2, cls_obj, 0, s2.res.val, "@name")
    IN  Ok(s3, cls_obj)

gen_conditional_branch(st, cond, then_block, else_block) ==
    LET s1 == unbox_bool(st, cond)
        s2 == Build(s1, "icmp_eq", i1_type, <<Built(s1, i1_type), const_int(i1_type, 1)>>,
                    <<>>, "istrue")
    IN  build_conditional_branch(s2, Built(s2, i1_type), then_block, else_block)


(* ------------------------ the recursive lowering ---------------------- *)
RECURSIVE gen_expr(_, _)
RECURSIVE gen_exprs_from(_, _, _)
RECURSIVE gen_args(_, _, _)

\* let v = x; K(v): x is computed once, whatever K does with v
Bind(x, K(_)) == CHOOSE r \in { K(v) : v \in {x} } : TRUE

\* exprs.exprs.iter().try_for_each(..)?, then last_value.expect(..)
gen_exprs(st, exprs) ==
    IF Len(exprs) = 0
    THEN Panic(st, "[BUG] HirExpressions must have at least one expr")
    ELSE gen_exprs_from(st, exprs, 1)

gen_exprs_from(st, exprs, i) ==
    Bind(gen_expr(st, exprs[i]), LAMBDA s1 :
        IF ~IsOk(s1) \/ i = Len(exprs) THEN s1
        ELSE gen_exprs_from(s1, exprs, i + 1))

gen_logical_not(st, expr) ==
    Bind(gen_expr(st, expr), LAMBDA s0 :
        IF ~IsOk(s0) THEN s0
        ELSE LET s1 == unbox_bool(s0, s0.res.val)
                 s2 == Build(s1, "sub", i1_type,
                             <<const_int(i1_type, 1), Built(s1, i1_type)>>, <<>>, "")
                 s3 == box_bool(s2, Built(s2, i1_type))
             IN  Ok(s3, Built(s3, llvm_type(ty_raw("Bool")))))

\* the (then, else) targets of the branch on the left value of an `and`
and_branch_targets_swapped(more_block, merge_block) == <<merge_block, more_block>>

and_branch_targets(more_block, merge_block) == <<more_block, merge_block>>

gen_logical_and(st, left, right) ==
    LET sA == append_basic_block(st, "AndBegin")
        begin_block == LastBlock(sA)
        sB == append_basic_block(sA, "AndMore")
        more_block == LastBlock(sB)
        sC == append_basic_block(sB, "AndEnd")
        merge_block == LastBlock(sC)
        s1 == position_at_end(build_unconditional_branch(sC, begin_block), begin_block)
    IN  Bind(gen_expr(s1, left), LAMBDA s2 :
        IF ~IsOk(s2) THEN s2
        ELSE
        LET left_value == s2.res.val
            t == and_branch_targets(more_block, merge_block)
            s3 == gen_conditional_branch(s2, left_value, t[1], t[2])
            begin_block_end == get_insert_block(s3)
            s4 == position_at_end(s3, more_block)
        IN  Bind(gen_expr(s4, right), LAMBDA s5 :
            IF ~IsOk(s5) THEN s5
            ELSE
            LET right_value == s5.res.val
                s6 == build_unconditional_branch(s5, merge_block)
                more_block_end == get_insert_block(s6)
                s7 == position_at_end(s6, merge_block)
                s8 == build_phi_incoming(s7, llvm_type(ty_raw("Bool")), "AndResult",
                                         <<left_value, right_value>>,
                                         <<begin_block_end, more_block_end>>)
                phi == Built(s8, llvm_type(ty_raw("Bool")))
                s9 == [s8 EXCEPT !.h_and = Append(@,
                          [more |-> more_block, merge |-> merge_block,
                           left |-> left_value, left_end |-> s2.cursor,
                           right |-> right_value, right_end |-> s5.cursor,
                           phi |-> phi.n])]
            IN  Ok(s9, phi)))

\* the (then, else) targets of the branch on the left value of an `or`
or_branch_targets_swapped(merge_block, else_block) == <<else_block, merge_block>>

or_branch_targets(merge_block, else_block) == <<merge_block, else_block>>

gen_logical_or(st, left, right) ==
    LET sA == append_basic_block(st, "OrBegin")
        begin_block == LastBlock(sA)
        sB == append_basic_block(sA, "OrElse")
        else_block == LastBlock(sB)
        sC == append_basic_block(sB, "OrEnd")
        merge_block == LastBlock(sC)
        s1 == position_at_end(build_unconditional_branch(sC, begin_block), begin_block)
    IN  Bind(gen_expr(s1, left), LAMBDA s2 :
        IF ~IsOk(s2) THEN s2
        ELSE
        LET left_value == s2.res.val
            t == or_branch_targets(merge_block, else_block)
            s3 == gen_conditional_branch(s2, left_value, t[1], t[2])
            begin_block_end == get_insert_block(s3)
            s4 == position_at_end(s3, else_block)
        IN  Bind(gen_expr(s4, right), LAMBDA s5 :
            IF ~IsOk(s5) THEN s5
            ELSE
            LET right_value == s5.res.val
                s6 == build_unconditional_branch(s5, merge_block)
                else_block_end == get_insert_block(s6)
                s7 == position_at_end(s6, merge_block)
                s8 == build_phi_incoming(s7, llvm_type(ty_raw("Bool")), "OrResult",
                                         <<left_value, right_value>>,
                                         <<begin_block_end, else_block_end>>)
                phi == Built(s8, llvm_type(ty_raw("Bool")))
                s9 == [s8 EXCEPT !.h_or = Append(@,
                          [els |-> else_block, merge |-> merge_block,
                           left |-> left_value, left_end |-> s2.cursor,
                           right |-> right_value, right_end |-> s5.cursor,
                           phi |-> phi.n])]
            IN  Ok(s9, phi)))

\* the blocks named as the phi's predecessors in gen_if_expr: the insert
\* blocks read after each arm
if_phi_blocks_arm_heads(then_block, then_block_end, else_block, else_block_end) ==
    <<then_block, else_block>>

if_phi_blocks(then_block, then_block_end, else_block, else_block_end) ==
    <<then_block_end, else_block_end>>

\* the Some(else_exprs) arm of gen_if_expr
gen_if_expr_some(st, ty, cond_expr, then_exprs, else_exprs) ==
    LET sA == append_basic_block(st, "IfBegin")
        begin_block == LastBlock(sA)
        sB == append_basic_block(sA, "IfThen")
        then_block == LastBlock(sB)
        sC == append_basic_block(sB, "IfElse")
        else_block == LastBlock(sC)
        sD == append_basic_block(sC, "IfEnd")
        merge_block == LastBlock(sD)
        s1 == position_at_end(build_unconditional_branch(sD, begin_block), begin_block)
    IN  Bind(gen_expr(s1, cond_expr), LAMBDA s2 :
        IF ~IsOk(s2) THEN s2
        ELSE
        LET s3 == gen_conditional_branch(s2, s2.res.val, then_block, else_block)
            s4 == position_at_end(s3, then_block)
        IN  Bind(gen_exprs(s4, then_exprs), LAMBDA s5 :
            IF ~IsOk(s5) THEN s5
            ELSE
            LET then_value == s5.res.val
                s6 == build_unconditional_branch(s5, merge_block)
                then_block_end == get_insert_block(s6)
                s7 == position_at_end(s6, else_block)
            IN  Bind(gen_exprs(s7, else_exprs), LAMBDA s8 :
                IF ~IsOk(s8) THEN s8
                ELSE
                LET else_value == s8.res.val
                    s9 == build_unconditional_branch(s8, merge_block)
                    else_block_end == get_insert_block(s9)
                    s10 == position_at_end(s9, merge_block)
                    s11 == build_phi_incoming(s10, llvm_type(ty), "ifResult",
                               <<then_value, else_value>>,
                               if_phi_blocks(then_block, then_block_end,
                                             else_block, else_block_end))
                    phi == Built(s11, llvm_type(ty))
                    s12 == [s11 EXCEPT !.h_if = Append(@,
                               [merge |-> merge_block,
                                then_val |-> then_value, then_end |-> s5.cursor,
                                else_val |-> else_value, else_end |-> s8.cursor,
                                phi |-> phi.n])]
                IN  Ok(s12, phi))))

\* the None arm of gen_if_expr
gen_if_expr_none(st, cond_expr, then_exprs) ==
    Bind(gen_expr(st, cond_expr), LAMBDA s1 :
        IF ~IsOk(s1) THEN s1
        ELSE
        LET sA == append_basic_block(s1, "IfThen")
            then_block == LastBlock(sA)
            sB == append_basic_block(sA, "IfEnd")
            merge_block == LastBlock(sB)
            s2 == gen_conditional_branch(sB, s1.res.val, then_block, merge_block)
            s3 == position_at_end(s2, then_block)
        IN  Bind(gen_exprs(s3, then_exprs), LAMBDA s4 :
            IF ~IsOk(s4) THEN s4
            ELSE Ok(position_at_end(build_unconditional_branch(s4, merge_block),
                                    merge_block),
                    const_int(i1_type, 0))))

gen_if_expr(st, ty, cond_expr, then_exprs, has_else, else_exprs) ==
    IF has_else
    THEN gen_if_expr_some(st, ty, cond_expr, then_exprs, else_exprs)
    ELSE gen_if_expr_none(st, cond_expr, then_exprs)

gen_while_expr(st, cond_expr, body_exprs) ==
    LET sA == append_basic_block(st, "WhileBegin")
        begin_block == LastBlock(sA)
        s1 == position_at_end(build_unconditional_branch(sA, begin_block), begin_block)
    IN  Bind(gen_expr(s1, cond_expr), LAMBDA s2 :
        IF ~IsOk(s2) THEN s2
        ELSE
        LET sB == append_basic_block(s2, "WhileBody")
            body_block == LastBlock(sB)
            sC == append_basic_block(sB, "WhileEnd")
            end_block == LastBlock(sC)
            s3 == gen_conditional_branch(sC, s2.res.val, body_block, end_block)
            s4 == position_at_end(s3, body_block)
            s5 == [s4 EXCEPT !.current_loop_end = end_block, !.lex = Append(@, end_block)]
        IN  Bind(gen_exprs(s5, body_exprs), LAMBDA s6 :
            IF ~IsOk(s6) THEN s6
            ELSE
            LET s7 == [s6 EXCEPT !.current_loop_end = 0,
                                 !.lex = SubSeq(@, 1, Len(@) - 1)]
                s8 == build_unconditional_branch(s7, begin_block)
            IN  Ok(position_at_end(s8, end_block), const_int(i32_type, 0))))

\* a Break that finds no loop end answers as if it had branched
gen_break_expr_unchecked(st) ==
    IF st.current_loop_end # 0
    THEN Ok(build_unconditional_branch(st, st.current_loop_end), const_int(i32_type, 0))
    ELSE Ok(st, const_int(i32_type, 0))

\* current_loop_end is 0 for None, else the block of Some(block)
gen_break_expr(st) ==
    IF st.current_loop_end # 0
    THEN Ok(build_unconditional_branch(st, st.current_loop_end), const_int(i32_type, 0))
    ELSE Err(st, "break outside of a loop")

\* a store of an assignment, noted with the instructions of its right-hand side
NoteAssign(s, node, lo, hi) ==
    [s EXCEPT !.h_assign = Append(@, [node |-> node, lo |-> lo, hi |-> hi,
                                       store |-> s.next - 1])]

gen_lvar_assign(st, name, rhs) ==
    Bind(gen_expr(st, rhs), LAMBDA s1 :
        IF ~IsOk(s1) THEN s1
        ELSE
        LET value == s1.res.val
        IN  IF s1.lvars[name].kind # "none"
            THEN LET s2 == Build(s1, "store", Machine("void"),
                                 <<s1.lvars[name], value>>, <<>>, "")
                 IN  Ok(NoteAssign(s2, "HirLVarAssign", st.next, s1.next), value)
            ELSE LET s2 == Build(s1, "alloca", SlotOf(llvm_type(rhs.ty)), <<>>, <<>>, name)
                     ptr == Built(s2, SlotOf(llvm_type(rhs.ty)))
                     s3 == Build(s2, "store", Machine("void"), <<ptr, value>>, <<>>, "")
                     s4 == [s3 EXCEPT !.lvars[name] = ptr]
                 IN  Ok(NoteAssign(s4, "HirLVarAssign", st.next, s1.next), value))

gen_ivar_assign(st, name, idx, rhs) ==
    LET s0 == gen_self_expression(st)
    IN  IF ~IsOk(s0) THEN s0
        ELSE
        LET theself == s0.res.val
        IN  Bind(gen_expr(s0, rhs), LAMBDA s1 :
            IF ~IsOk(s1) THEN s1
            ELSE LET s2 == build_ivar_store(s1, theself, idx, s1.res.val, name)
                 IN  Ok(NoteAssign(s2, "HirIVarAssign", s0.next, s1.next), s1.res.val))

gen_const_assign(st, fullname, rhs) ==
    Bind(gen_expr(st, rhs), LAMBDA s1 :
        IF ~IsOk(s1) THEN s1
        ELSE IF fullname \notin Globals
        THEN Panic(s1, "[BUG] global for Constant not created")
        ELSE LET ptr == [kind |-> "global", ty |-> SlotOf(llvm_type(GlobalTy(fullname))),
                         n |-> 0]
                 s2 == Build(s1, "store", Machine("void"), <<ptr, s1.res.val>>, <<>>,
                             fullname)
             IN  Ok(NoteAssign(s2, "HirConstAssign", st.next, s1.next), s1.res.val))

\* arg_exprs.iter().map(gen_expr).collect::<Result<Vec<_>, _>>(): the state
\* after the arguments from i on, with the values and instruction ranges
\* of the arguments lowered
gen_args(st, arg_exprs, i) ==
    IF i > Len(arg_exprs) THEN [st |-> st, vals |-> <<>>, ranges |-> <<>>]
    ELSE Bind(gen_expr(st, arg_exprs[i]), LAMBDA s1 :
         IF ~IsOk(s1) THEN [st |-> s1, vals |-> <<>>, ranges |-> <<>>]
         ELSE Bind(gen_args(s1, arg_exprs, i + 1), LAMBDA rest :
              [st |-> rest.st,
               vals |-> <<s1.res.val>> \o rest.vals,
               ranges |-> <<[lo |-> st.next, hi |-> s1.next]>> \o rest.ranges]))

NoteCall(s, recv, ranges, call) ==
    IF ~IsOk(s) THEN s
    ELSE [s EXCEPT !.h_call = Append(@, [recv |-> recv, args |-> ranges,
                                          call |-> call])]

\* the arguments are lowered first, and the receiver after them
gen_method_call_args_first(st, method_fullname, receiver_expr, arg_exprs) ==
    Bind(gen_args(st, arg_exprs, 1), LAMBDA r :
        IF ~IsOk(r.st) THEN r.st
        ELSE
        Bind(gen_expr(r.st, receiver_expr), LAMBDA s1 :
            IF ~IsOk(s1) THEN s1
            ELSE NoteCall(gen_llvm_func_call(s1, method_fullname, s1.res.val, r.vals),
                          [lo |-> r.st.next, hi |-> s1.next], r.ranges, s1.next)))

\* the call is built whatever the arguments answered
gen_method_call_unchecked(st, method_fullname, receiver_expr, arg_exprs) ==
    Bind(gen_expr(st, receiver_expr), LAMBDA s1 :
        IF ~IsOk(s1) THEN s1
        ELSE
        LET receiver_value == s1.res.val
        IN  Bind(gen_args(s1, arg_exprs, 1), LAMBDA r :
            NoteCall(gen_llvm_func_call(r.st, method_fullname, receiver_value, r.vals),
                     [lo |-> st.next, hi |-> s1.next], r.ranges, r.st.next)))

gen_method_call(st, method_fullname, receiver_expr, arg_exprs) ==
    Bind(gen_expr(st, receiver_expr), LAMBDA s1 :
        IF ~IsOk(s1) THEN s1
        ELSE
        LET receiver_value == s1.res.val
        IN  Bind(gen_args(s1, arg_exprs, 1), LAMBDA r :
            IF ~IsOk(r.st) THEN r.st
            ELSE NoteCall(gen_llvm_func_call(r.st, method_fullname, receiver_value, r.vals),
                          [lo |-> st.next, hi |-> s1.next], r.ranges, r.st.next)))

gen_array_literal(st, exprs) == gen_exprs(st, exprs)

gen_lambda_captures(st, captures_ary) ==
    IF captures_ary.node = "HirArrayLiteral"
    THEN gen_array_literal(st, captures_ary.a)
    ELSE Panic(st, "captures_ary not Array")

\* the class named after the number of params itself
lambda_cls_name_all_params(params) == "Fn" \o format_usize(params)

\* format!("Fn{}", params.len() - 1)
lambda_cls_name(params) == "Fn" \o format_usize(params - 1)

\* the call that makes the Fn object, noted with what it was made from
NoteLambda(s, params, func_name, decl, captures) ==
    IF ~IsOk(s) THEN s
    ELSE [s EXCEPT !.h_lambda = Append(@, [params |-> params, func_name |-> func_name,
                                            decl |-> decl, captures |-> captures,
                                            val |-> s.res.val])]

\* params is the number of MethodParams, ret_ty the type of the body
gen_lambda_expr(st, func_name, params, ret_ty, captures_ary) ==
    LET arg_types == [k \in 1..(params - 1) |-> llvm_type(ty_raw("Object"))]
                         \o <<llvm_type(ty_ary(ty_raw("Object")))>>
        s0 == [st EXCEPT !.decls = Append(@, [name |-> func_name, params |-> arg_types,
                                              ret |-> llvm_type(ret_ty)])]
    IN  IF params = 0 THEN Panic(s0, "attempt to subtract with overflow")
        ELSE
        LET cls_name == lambda_cls_name(params)
            s1 == gen_const_ref(s0, "::" \o cls_name)
        IN  IF ~IsOk(s1) THEN s1
            ELSE
            LET meta == s1.res.val
                fnptr == [kind |-> "function", ty |-> Ptr("fn"), n |-> Len(s0.decls)]
                s2 == Build(s1, "bitcast", i8ptr_type, <<fnptr>>, <<>>, "")
                fnptr_i8 == Built(s2, i8ptr_type)
            IN  Bind(gen_lambda_captures(s2, captures_ary), LAMBDA s3 :
                IF ~IsOk(s3) THEN s3
                ELSE NoteLambda(gen_llvm_func_call(s3, "Meta:" \o cls_name \o "#new", meta,
                                                   <<fnptr_i8, s3.res.val>>),
                                params, func_name, Len(s0.decls), s3.res.val))

gen_lambda_capture_ref(st, idx_in_captures, ty) ==
    IF ~HasFunctionParams(st.function_origin)
    THEN Panic(st, "called Option::unwrap() on a None value")
    ELSE
    LET idx_of_captures == Len(FunctionParams(st.function_origin)) - 1
        s1 == gen_arg_ref(st, idx_of_captures)
    IN  IF ~IsOk(s1) THEN s1
        ELSE
        LET captures == s1.res.val
            s2 == gen_decimal_literal(s1, idx_in_captures)
            s3 == gen_llvm_func_call(s2, "Array#nth", captures, <<s2.res.val>>)
        IN  IF ~IsOk(s3) THEN s3
            ELSE LET s4 == Build(s3, "bitcast", llvm_type(ty), <<s3.res.val>>, <<>>, "")
                 IN  Ok(s4, Built(s4, llvm_type(ty)))

gen_bitcast(st, expr, ty) ==
    Bind(gen_expr(st, expr), LAMBDA s1 :
        IF ~IsOk(s1) THEN s1
        ELSE LET s2 == Build(s1, "bitcast", llvm_type(ty), <<s1.res.val>>, <<>>, "as")
             IN  Ok(s2, Built(s2, llvm_type(ty))))

\* HirExpressions.ty: the type of the last expression
ExprsTy(exprs) == exprs[Len(exprs)].ty

gen_expr_match(st, expr) ==
    CASE expr.node = "HirLogicalNot" -> gen_logical_not(st, expr.a[1])
      [] expr.node = "HirLogicalAnd" -> gen_logical_and(st, expr.a[1], expr.b[1])
      [] expr.node = "HirLogicalOr" -> gen_logical_or(st, expr.a[1], expr.b[1])
      [] expr.node = "HirIfExpression" ->
             gen_if_expr(st, expr.ty, expr.a[1], expr.b, expr.n = 1, expr.c)
      [] expr.node = "HirWhileExpression" -> gen_while_expr(st, expr.a[1], expr.b)
      [] expr.node = "HirBreakExpression" -> gen_break_expr(st)
      [] expr.node = "HirLVarAssign" -> gen_lvar_assign(st, expr.name, expr.a[1])
      [] expr.node = "HirIVarAssign" -> gen_ivar_assign(st, expr.name, expr.n, expr.a[1])
      [] expr.node = "HirConstAssign" -> gen_const_assign(st, expr.name, expr.a[1])
      [] expr.node = "HirMethodCall" -> gen_method_call(st, expr.name, expr.a[1], expr.b)
      [] expr.node = "HirArgRef" -> gen_arg_ref(st, expr.n)
      [] expr.node = "HirLVarRef" -> gen_lvar_ref(st, expr.name)
      [] expr.node = "HirIVarRef" -> gen_ivar_ref(st, expr.name, expr.n)
      [] expr.node = "HirConstRef" -> gen_const_ref(st, expr.name)
      [] expr.node = "HirLambdaExpr" ->
             gen_lambda_expr(st, expr.name, expr.n, ExprsTy(expr.b), expr.a[1])
      [] expr.node = "HirSelfExpression" -> gen_self_expression(st)
      [] expr.node = "HirArrayLiteral" -> gen_array_literal(st, expr.a)
      [] expr.node = "HirFloatLiteral" -> gen_float_literal(st, expr.n)
      [] expr.node = "HirDecimalLiteral" -> gen_decimal_literal(st, expr.n)
      [] expr.node = "HirStringLiteral" -> gen_string_literal(st, expr.n)
      [] expr.node = "HirBooleanLiteral" -> gen_boolean_literal(st, expr.n)
      [] expr.node = "HirLambdaCaptureRef" -> gen_lambda_capture_ref(st, expr.n, expr.ty)
      [] expr.node = "HirBitCast" -> gen_bitcast(st, expr.a[1], expr.ty)
      [] expr.node = "HirClassLiteral" -> gen_class_literal(st, expr.name, expr.n)

\* what gen_expr was called on and what it answered, noted in the answer
NoteExpr(st, expr, s) ==
    [s EXCEPT !.h_expr = Append(@,
        [node |-> expr.node, ty |-> expr.ty, kind |-> s.res.kind, msg |-> s.res.msg,
         val_ty |-> s.res.val.ty, lex |-> st.lex, origin |-> st.function_origin,
         sub |-> IF Len(expr.a) > 0 THEN expr.a[1].node ELSE "",
         lo |-> st.next, hi |-> s.next, at |-> st.cursor,
         before |-> Len(st.h_expr), blocks |-> Len(s.blocks)])]

gen_expr(st, expr) ==
    Bind(st, LAMBDA s0 :
        Bind(gen_expr_match(s0, expr), LAMBDA s : NoteExpr(s0, expr, s)))

(* --------------------------- the HIR inputs --------------------------- *)
TBool == ty_raw("Bool")

TInt == ty_raw("Int")

TVoid == ty_raw("Void")

BoolLit == Hir("HirBooleanLiteral", TBool, "", 1, <<>>, <<>>, <<>>)

DecLit == Hir("HirDecimalLiteral", TInt, "", 1, <<>>, <<>>, <<>>)

Break == Hir("HirBreakExpression", TVoid, "", 0, <<>>, <<>>, <<>>)

LVarRef(name) == Hir("HirLVarRef", TInt, name, 0, <<>>, <<>>, <<>>)

ArgRef(idx) == Hir("HirArgRef", TInt, "", idx, <<>>, <<>>, <<>>)

LVarAssign(name, rhs) == Hir("HirLVarAssign", rhs.ty, name, 0, <<rhs>>, <<>>, <<>>)

IVarAssign(name, idx, rhs) == Hir("HirIVarAssign", rhs.ty, name, idx, <<rhs>>, <<>>, <<>>)

ConstAssign(fullname, rhs) == Hir("HirConstAssign", rhs.ty, fullname, 0, <<rhs>>, <<>>, <<>>)

Not(e) == Hir("HirLogicalNot", TBool, "", 0, <<e>>, <<>>, <<>>)

And(l, r) == Hir("HirLogicalAnd", TBool, "", 0, <<l>>, <<r>>, <<>>)

Or(l, r) == Hir("HirLogicalOr", TBool, "", 0, <<l>>, <<r>>, <<>>)

IfElse(c, t, e) == Hir("HirIfExpression", ExprsTy(t), "", 1, <<c>>, t, e)

IfThen(c, t) == Hir("HirIfExpression", TVoid, "", 0, <<c>>, t, <<>>)

While(c, body) == Hir("HirWhileExpression", TVoid, "", 0, <<c>>, body, <<>>)

MethodCall(name, recv, args) == Hir("HirMethodCall", FuncRet(name), name, 0, <<recv>>, args, <<>>)

ArrayLit(items) == Hir("HirArrayLiteral", ty_ary(ExprsTy(items)), "", 0, items, <<>>, <<>>)

BitCast(e) == Hir("HirBitCast", ty_raw("Object"), "", 0, <<e>>, <<>>, <<>>)

Lambda(params, captures_ary) ==
    Hir("HirLambdaExpr", ty_raw("Fn" \o format_usize(params - 1)), "lambda_1", params,
        <<captures_ary>>, <<DecLit>>, <<>>)

\* the expressions without sub-expressions
CoreLeaves == {BoolLit, DecLit, Break, LVarRef("x")}

OtherLeaves ==
    { ArgRef(0),
      Hir("HirFloatLiteral", ty_raw("Float"), "", 1, <<>>, <<>>, <<>>),
      Hir("HirStringLiteral", ty_raw("String"), "", 0, <<>>, <<>>, <<>>),
      Hir("HirClassLiteral", ty_meta("A"), "A", 0, <<>>, <<>>, <<>>),
      Hir("HirIVarRef", TInt, "@a", 0, <<>>, <<>>, <<>>),
      Hir("HirConstRef", TInt, "::A", 0, <<>>, <<>>, <<>>),
      Hir("HirSelfExpression", ty_raw("Object"), "", 0, <<>>, <<>>, <<>>),
      Hir("HirLambdaCaptureRef", TInt, "", 0, <<>>, <<>>, <<>>) }

\* the simplest expression of a type, to sit beside a nested one
Plain(ty) == IF ty = TBool THEN {BoolLit}
             ELSE IF ty = TInt THEN {DecLit}
             ELSE IF ty = TVoid THEN {Break}
             ELSE {}

\* every expression that has e as one direct sub-expression
Wrap(e) ==
    (IF e.ty = TBool
     THEN { Not(e), And(e, BoolLit), And(BoolLit, e), And(e, e),
            Or(e, BoolLit), Or(BoolLit, e), Or(e, e),
            IfElse(e, <<DecLit>>, <<DecLit>>), IfThen(e, <<DecLit>>), While(e, <<DecLit>>) }
     ELSE {})
    \cup
    (IF e.ty = TInt
     THEN { LVarAssign("x", e), IVarAssign("@a", 0, e), ConstAssign("::A", e),
            MethodCall("Int#+", e, <<DecLit>>), MethodCall("Int#+", DecLit, <<e>>),
            MethodCall("Int#between", e, <<DecLit, DecLit>>),
            MethodCall("Int#between", DecLit, <<e, DecLit>>),
            MethodCall("Int#between", DecLit, <<DecLit, e>>),
            MethodCall("Object#putd", e, <<>>) }
     ELSE {})
    \cup { IfElse(BoolLit, <<e>>, <<f>>) : f \in Plain(e.ty) }
    \cup { IfElse(BoolLit, <<f>>, <<e>>) : f \in Plain(e.ty) }
    \cup { IfElse(BoolLit, <<e>>, <<e>>), IfThen(BoolLit, <<e>>),
           While(BoolLit, <<e>>), While(BoolLit, <<e, Break>>),
           ArrayLit(<<e>>), BitCast(e) }
    \cup { Lambda(n, e) : n \in 1..MaxParams }
    \cup
    (IF e = Break
     THEN { IfElse(BoolLit, <<e, DecLit>>, <<DecLit>>),
            IfElse(BoolLit, <<e, BoolLit>>, <<BoolLit>>) }
     ELSE {})

RECURSIVE Exprs(_)
Exprs(d) ==
    IF d = 0 THEN CoreLeaves
    ELSE Exprs(d - 1) \cup UNION { Wrap(e) : e \in Exprs(d - 1) }

HirExprs == Exprs(MaxDepth) \cup OtherLeaves \cup UNION { Wrap(e) : e \in OtherLeaves }

\* the bodies of the function being compiled
Bodies ==
    { <<e>> : e \in HirExprs }
    \cup { <<e, LVarRef("x")>> : e \in HirExprs }
    \cup { <<LVarAssign("x", DecLit), e>> : e \in HirExprs }

RECURSIVE ReadsFunction(_)
\* the lowering of e reads ctx.function, ctx.function_origin or
\* ctx.function_params
ReadsFunction(e) ==
    \/ e.node \in {"HirArgRef", "HirLambdaCaptureRef", "HirSelfExpression",
                   "HirIVarRef", "HirIVarAssign"}
    \/ \E k \in Range(e.a \o e.b \o e.c) : ReadsFunction(k)

\* the kinds of function a body is compiled in; a body whose lowering never
\* looks at the function is lowered the same in all three, and is tried
\* in one
Origins(body) ==
    IF \E e \in Range(body) : ReadsFunction(e)
    THEN {"Method", "Lambda", "TopLevel"}
    ELSE {"Method"}

\* the lowering of one function body ...
VARIABLES exprs, pos, builder, ctx, decls, outcome, hist
\* ... and one ClassFullname with what names.rs derived from it
VARIABLES fullname, meta, ismeta, termty, npc
\* ... and one built-in method with the body made for it and a call of it
VARIABLES method, function, body, args, retval, spc

cgvars == <<exprs, pos, builder, ctx, decls, outcome, hist>>

namevars == <<fullname, meta, ismeta, termty, npc>>

stdvars == <<method, function, body, args, retval, spc>>

vars == <<exprs, pos, builder, ctx, decls, outcome, hist, fullname, meta, ismeta, termty, npc,
         method, function, body, args, retval, spc>>

LVarNames == {"x"}

NoHist == [lex |-> <<>>, h_expr |-> <<>>, h_if |-> <<>>, h_and |-> <<>>, h_or |-> <<>>,
           h_assign |-> <<>>, h_call |-> <<>>, h_lambda |-> <<>>]

\* the record the gen_* operators work on
St == [blocks |-> builder.blocks, cursor |-> builder.cursor, next |-> builder.next,
       lvars |-> ctx.lvars, current_loop_end |-> ctx.current_loop_end,
       function_origin |-> ctx.function_origin, decls |-> decls,
       res |-> [kind |-> "Ok", val |-> NoValue, msg |-> ""],
       lex |-> hist.lex, h_expr |-> hist.h_expr, h_if |-> hist.h_if,
       h_and |-> hist.h_and, h_or |-> hist.h_or, h_assign |-> hist.h_assign,
       h_call |-> hist.h_call, h_lambda |-> hist.h_lambda]

StdIdle ==
    /\ method = [class |-> "", name |-> "", params |-> <<>>, ret |-> ""]
    /\ function = <<>>
    /\ body = <<>>
    /\ args = <<>>
    /\ retval = NoValue
    /\ spc = "idle"

NamesIdle ==
    /\ fullname = ""
    /\ meta = ""
    /\ ismeta = FALSE
    /\ termty = ty_raw("")
    /\ npc = "idle"

Init ==
    /\ NamesIdle
    /\ StdIdle
    /\ exprs \in Bodies
    /\ pos = 1
    /\ builder = [blocks |-> <<[name |-> "entry", insts |-> <<>>]>>, cursor |-> 1, next |-> 1]
    /\ \E o \in Origins(exprs) :
          ctx = [lvars |-> [n \in LVarNames |-> NoValue], current_loop_end |-> 0,
                 function_origin |-> o]
    /\ decls = <<>>
    /\ outcome = [kind |-> "Running", val |-> NoValue, msg |-> ""]
    /\ hist = NoHist

Put(s) ==
    /\ builder' = [blocks |-> s.blocks, cursor |-> s.cursor, next |-> s.next]
    /\ ctx' = [lvars |-> s.lvars, current_loop_end |-> s.current_loop_end,
               function_origin |-> s.function_origin]
    /\ decls' = s.decls
    /\ hist' = [lex |-> s.lex, h_expr |-> s.h_expr, h_if |-> s.h_if, h_and |-> s.h_and,
                h_or |-> s.h_or, h_assign |-> s.h_assign, h_call |-> s.h_call,
                h_lambda |-> s.h_lambda]

\* one turn of the try_for_each of gen_exprs over the body of the function
GenExprsNext ==
    /\ outcome.kind = "Running"
    /\ pos <= Len(exprs)
    /\ \E s \in {gen_expr(St, exprs[pos])} :
           /\ Put(s)
           /\ outcome' = IF IsOk(s) THEN [s.res EXCEPT !.kind = "Running"] ELSE s.res
    /\ pos' = pos + 1
    /\ UNCHANGED <<exprs, namevars, stdvars>>

\* Ok(last_value.expect(..)) of gen_exprs
GenExprsReturn ==
    /\ outcome.kind = "Running"
    /\ pos > Len(exprs)
    /\ outcome' = [outcome EXCEPT !.kind = "Ok"]
    /\ UNCHANGED <<exprs, pos, builder, ctx, decls, hist, namevars, stdvars>>

Next == GenExprsNext \/ GenExprsReturn

Spec == Init /\ [][Next]_vars

(* ------------------------ names.rs as a machine ----------------------- *)
NameParts == {"Meta:", "Meta", ":", "A", "Int"}

RECURSIVE Names(_)
Names(k) ==
    IF k = 0 THEN {""}
    ELSE Names(k - 1) \cup { n \o p : n \in Names(k - 1), p \in NameParts }

InitNames ==
    /\ StdIdle
    /\ exprs = <<>>
    /\ pos = 1
    /\ builder = [blocks |-> <<[name |-> "entry", insts |-> <<>>]>>, cursor |-> 1, next |-> 1]
    /\ ctx = [lvars |-> [n \in LVarNames |-> NoValue], current_loop_end |-> 0,
              function_origin |-> "TopLevel"]
    /\ decls = <<>>
    /\ outcome = [kind |-> "Idle", val |-> NoValue, msg |-> ""]
    /\ hist = NoHist
    /\ fullname \in Names(MaxParts) \ {""}
    /\ meta = ""
    /\ ismeta = FALSE
    /\ termty = ty_raw("")
    /\ npc = "start"

\* ClassFullname::meta_name
MetaName ==
    /\ npc = "start"
    /\ meta' = meta_name(fullname)
    /\ npc' = "named"
    /\ UNCHANGED <<fullname, ismeta, termty, cgvars, stdvars>>

\* ClassFullname::is_meta of the name meta_name gave
IsMeta ==
    /\ npc = "named"
    /\ ismeta' = is_meta(meta)
    /\ npc' = "tested"
    /\ UNCHANGED <<fullname, meta, termty, cgvars, stdvars>>

\* ClassFullname::to_ty of the name meta_name gave
ToTyOfMeta ==
    /\ npc = "tested"
    /\ termty' = to_ty(meta)
    /\ npc' = "meta_typed"
    /\ UNCHANGED <<fullname, meta, ismeta, cgvars, stdvars>>

\* ClassFullname::to_ty of the name itself
ToTy ==
    /\ npc = "start"
    /\ termty' = to_ty(fullname)
    /\ npc' = "typed"
    /\ UNCHANGED <<fullname, meta, ismeta, cgvars, stdvars>>

NextNames == MetaName \/ IsMeta \/ ToTyOfMeta \/ ToTy

SpecNames == InitNames /\ [][NextNames]_vars

(* ------------- stdlib/int.rs and stdlib/float.rs as a machine ---------- *)
f64_type == Machine("f64")

\* the type the field code_gen.f32_type names
f32_type == Machine("f32")

\* the machine type of a parameter or a result declared Int or Float
PrimType(name) ==
    CASE name = "Int" -> i32_type
      [] name = "Float" -> f64_type

\* create_methods of int.rs: the signatures given to create_method
int_create_methods ==
    { [class |-> "Int", name |-> "+", params |-> <<"Int">>, ret |-> "Int"],
      [class |-> "Int", name |-> "to_f", params |-> <<>>, ret |-> "Float"] }

\* create_methods of float.rs
float_create_methods ==
    { [class |-> "Float", name |-> "+", params |-> <<"Float">>, ret |-> "Float"],
      [class |-> "Float", name |-> "to_i", params |-> <<>>, ret |-> "Int"] }

\* function.get_params(): the receiver, then the declared parameters
get_params(m) ==
    [i \in 1..(Len(m.params) + 1) |->
        ParamValue(PrimType((<<m.class>> \o m.params)[i]), i - 1)]

\* into_int_value and into_float_value panic on a value of another kind
is_int_value(v) == v.ty \in {i1_type, i32_type}

is_float_value(v) == v.ty \in {f32_type, f64_type}

BodyInst(op, ty, ops, name) == [op |-> op, ty |-> ty, ops |-> ops, name |-> name]

\* builder.build_return(Some(&result)) after the one instruction of a body
build_return(inst) == <<inst, BodyInst("ret", Machine("void"), <<InstValue(inst.ty, 1)>>, "")>>

\* build_signed_int_to_float(int, code_gen.f32_type, "float")
int_to_f_type == f32_type

\* integers and floats a built-in is called on; a float is counted in halves
IntArgs == (0 - MaxArg)..MaxArg

FloatArgs == (0 - MaxArg)..MaxArg

ArgsOf(name) == IF name = "Int" THEN IntArgs ELSE FloatArgs

\* the arguments of a call of m: one for the receiver and one per parameter
ArgTuples(m) ==
    IF Len(m.params) = 0
    THEN { <<a>> : a \in ArgsOf(m.class) }
    ELSE { <<a, b>> : a \in ArgsOf(m.class), b \in ArgsOf(m.params[1]) }

\* fptosi rounds toward zero
truncate_halves(v) == IF v >= 0 THEN v \div 2 ELSE 0 - ((0 - v) \div 2)

\* what the one instruction of the body computes on the arguments as
execute(inst, as) ==
    CASE inst.op = "add" -> [ty |-> inst.ty, v |-> as[1] + as[2]]
      [] inst.op = "fadd" -> [ty |-> inst.ty, v |-> as[1] + as[2]]
      [] inst.op = "sitofp" -> [ty |-> inst.ty, v |-> 2 * as[1]]
      [] inst.op = "fptosi" -> [ty |-> inst.ty, v |-> truncate_halves(as[1])]

CgIdle ==
    /\ exprs = <<>>
    /\ pos = 1
    /\ builder = [blocks |-> <<[name |-> "entry", insts |-> <<>>]>>, cursor |-> 1, next |-> 1]
    /\ ctx = [lvars |-> [n \in LVarNames |-> NoValue], current_loop_end |-> 0,
              function_origin |-> "Method"]
    /\ decls = <<>>
    /\ outcome = [kind |-> "Idle", val |-> NoValue, msg |-> ""]
    /\ hist = NoHist

InitStdlib ==
    /\ CgIdle
    /\ NamesIdle
    /\ method \in int_create_methods \cup float_create_methods
    /\ function = get_params(method)
    /\ body = <<>>
    /\ args \in ArgTuples(method)
    /\ retval = NoValue
    /\ spc = "created"

\* the body given for "+(other: Int) -> Int"
Int_plus ==
    /\ spc = "created"
    /\ method.class = "Int" /\ method.name = "+"
    /\ IF is_int_value(function[1]) /\ is_int_value(function[2])
       THEN /\ body' = build_return(BodyInst("add", function[1].ty,
                                             <<function[1], function[2]>>, "result"))
            /\ spc' = "built"
       ELSE /\ body' = body
            /\ spc' = "panic"
    /\ UNCHANGED <<method, function, args, retval, cgvars, namevars>>

\* the body given for "to_f() -> Float"
Int_to_f ==
    /\ spc = "created"
    /\ method.class = "Int" /\ method.name = "to_f"
    /\ IF is_int_value(function[1])
       THEN /\ body' = build_return(BodyInst("sitofp", int_to_f_type, <<function[1]>>, "float"))
            /\ spc' = "built"
       ELSE /\ body' = body
            /\ spc' = "panic"
    /\ UNCHANGED <<method, function, args, retval, cgvars, namevars>>

\* the body given for "+(other: Float) -> Float"
Float_plus ==
    /\ spc = "created"
    /\ method.class = "Float" /\ method.name = "+"
    /\ IF is_float_value(function[1]) /\ is_float_value(function[2])
       THEN /\ body' = build_return(BodyInst("fadd", function[1].ty,
                                             <<function[1], function[2]>>, "result"))
            /\ spc' = "built"
       ELSE /\ body' = body
            /\ spc' = "panic"
    /\ UNCHANGED <<method, function, args, retval, cgvars, namevars>>

\* the body given for "to_i() -> Int"
Float_to_i ==
    /\ spc = "created"
    /\ method.class = "Float" /\ method.name = "to_i"
    /\ IF is_float_value(function[1])
       THEN /\ body' = build_return(BodyInst("fptosi", i32_type, <<function[1]>>, "int"))
            /\ spc' = "built"
       ELSE /\ body' = body
            /\ spc' = "panic"
    /\ UNCHANGED <<method, function, args, retval, cgvars, namevars>>

\* a call of the method made: its body runs on the arguments and returns
CallBuiltin ==
    /\ spc = "built"
    /\ retval' = execute(body[1], args)
    /\ spc' = "called"
    /\ UNCHANGED <<method, function, body, args, cgvars, namevars>>

NextStdlib == Int_plus \/ Int_to_f \/ Float_plus \/ Float_to_i \/ CallBuiltin

SpecStdlib == InitStdlib /\ [][NextStdlib]_vars

(* ------------------- reading the emitted function --------------------- *)
BlockIds == DOMAIN builder.blocks

InstsOf(k) == builder.blocks[k].insts

IsTerminator(i) == i.op \in {"br", "condbr"}

Terminators(k) == { j \in DOMAIN InstsOf(k) : IsTerminator(InstsOf(k)[j]) }

\* block k holds a branch instruction with target m
BranchesTo(k, m) ==
    \E j \in Terminators(k) : m \in Range(InstsOf(k)[j].tgts)

Preds(m) == { k \in BlockIds : BranchesTo(k, m) }

Places == UNION { { <<k, j>> : j \in DOMAIN InstsOf(k) } : k \in BlockIds }

Emitted(id) == \E p \in Places : InstsOf(p[1])[p[2]].id = id

PlaceOf(id) == CHOOSE p \in Places : InstsOf(p[1])[p[2]].id = id

InstOf(id) == InstsOf(PlaceOf(id)[1])[PlaceOf(id)[2]]

Phis(m) == { j \in DOMAIN InstsOf(m) : InstsOf(m)[j].op = "phi" }

Breaks == { ev \in Range(hist.h_expr) : ev.node = "HirBreakExpression" }

(* ------------------------------ C1 ------------------------------------ *)
\* C1: every basic block gets exactly one terminator: no block ever holds
\* two branch instructions, and when lowering has returned Ok every block
\* but the one the cursor is left on holds one.
C1_OneTerminatorPerBlock ==
    /\ \A k \in BlockIds : Cardinality(Terminators(k)) <= 1
    /\ outcome.kind = "Ok" =>
           \A k \in BlockIds \ {builder.cursor} : Cardinality(Terminators(k)) = 1

(* ------------------------------ C2 ------------------------------------ *)
\* C2: a Break that is lexically inside a While is lowered without error
\* to one unconditional branch to the WhileEnd block of the innermost
\* enclosing While.
C2_BreakTargetsInnermostLoop ==
    \A ev \in Breaks :
        ev.lex # <<>> =>
            /\ ev.kind = "Ok"
            /\ ev.hi = ev.lo + 1
            /\ Emitted(ev.lo)
            /\ InstOf(ev.lo).op = "br"
            /\ InstOf(ev.lo).tgts = <<ev.lex[Len(ev.lex)]>>

(* ------------------------------ C3 ------------------------------------ *)
\* C3: a Break with no lexically enclosing While returns the error
\* "break outside of a loop" as an Err and emits no instruction.
C3_BreakOutsideLoopIsErr ==
    \A ev \in Breaks :
        ev.lex = <<>> =>
            /\ ev.kind = "Err"
            /\ ev.msg = "break outside of a loop"
            /\ ev.hi = ev.lo
            /\ outcome.kind = "Err"
            /\ outcome.msg = "break outside of a loop"
            /\ builder.next = ev.lo

C3_Witness ==
    \E ev \in Breaks : ev.lex = <<>> /\ ev.lo > 1 /\ outcome.kind = "Err"

(* ------------------------------ C4 ------------------------------------ *)
\* C4: the phi of an If with else has exactly the two incoming pairs
\* (then value, block where the then arm ended) and (else value, block
\* where the else arm ended), and these two blocks are exactly the blocks
\* that branch to IfEnd.
C4_IfPhiPredecessors ==
    \A ev \in Range(hist.h_if) :
        /\ Cardinality(Phis(ev.merge)) = 1
        /\ Emitted(ev.phi)
        /\ PlaceOf(ev.phi)[1] = ev.merge
        /\ InstOf(ev.phi).op = "phi"
        /\ InstOf(ev.phi).ops = <<ev.then_val, ev.else_val>>
        /\ InstOf(ev.phi).tgts = <<ev.then_end, ev.else_end>>
        /\ ev.then_end # ev.else_end
        /\ Preds(ev.merge) = {ev.then_end, ev.else_end}

\* an If whose two arms both ended on a block other than the arm's first
C4_Witness ==
    \E ev \in Range(hist.h_if) :
        /\ builder.blocks[ev.then_end].name \notin {"IfThen"}
        /\ builder.blocks[ev.else_end].name \notin {"IfElse"}
        /\ outcome.kind = "Ok"

(* ------------------------------ C5 ------------------------------------ *)
Succs(k) == UNION { Range(InstsOf(k)[j].tgts) : j \in Terminators(k) }

\* the blocks control can reach from the blocks of `seen` without entering `a`
RECURSIVE ReachAvoiding(_, _)
ReachAvoiding(seen, a) ==
    LET more == (UNION { Succs(k) : k \in seen }) \ (seen \cup {a})
    IN  IF more = {} THEN seen ELSE ReachAvoiding(seen \cup more, a)

\* every path from the entry block to block b passes through block a
Dominates(a, b) ==
    \/ a = b
    \/ a # 1 /\ b \notin ReachAvoiding({1}, a)

\* the instruction `def` is executed before the instruction `use` on
\* every path that reaches `use`
DefDominatesUse(def, use) ==
    LET d == PlaceOf(def)
        u == PlaceOf(use)
    IN  IF d[1] = u[1] THEN d[2] < u[2] ELSE Dominates(d[1], u[1])

\* the loads of and stores to local-variable slots
SlotUses ==
    { p \in Places :
        /\ InstsOf(p[1])[p[2]].op \in {"load", "store"}
        /\ Len(InstsOf(p[1])[p[2]].ops) > 0
        /\ InstsOf(p[1])[p[2]].ops[1].kind = "inst" }

\* C5: the alloca of a local variable's slot dominates every load of the
\* variable and every store to it, whatever the control flow of the body
\* (stated for the functions in which no block was terminated twice).
C5_AllocaDominatesUses ==
    (\A k \in BlockIds : Cardinality(Terminators(k)) <= 1) =>
        \A p \in SlotUses :
            LET use == InstsOf(p[1])[p[2]]
            IN  /\ Emitted(use.ops[1].n)
                /\ InstOf(use.ops[1].n).op = "alloca"
                /\ DefDominatesUse(use.ops[1].n, use.id)

(* ------------------------------ C6 ------------------------------------ *)
\* C6: the value gen_expr returns for an expression e has the LLIR type
\* the Type Mapper assigns to e.ty.
C6_ValueHasMappedType ==
    \A ev \in Range(hist.h_expr) :
        ev.kind = "Ok" => ev.val_ty = llvm_type(ev.ty)

(* ------------------------------ C7 ------------------------------------ *)
\* C7: an ArgRef outside a method or lambda, and a LambdaExpr whose
\* captures are no array literal, are answered with an Err, never a panic.
C7_ProgramErrorsAreErr ==
    \A ev \in Range(hist.h_expr) :
        /\ (ev.node = "HirArgRef" /\ ev.origin \notin {"Method", "Lambda"})
               => ev.kind = "Err"
        /\ (ev.node = "HirLambdaExpr" /\ ev.sub # "HirArrayLiteral")
               => ev.kind = "Err"

(* ------------------------------ C8 ------------------------------------ *)
RECURSIVE InOrder(_, _)
\* the instruction ranges of rs follow one another, the first not before `from`
InOrder(rs, from) ==
    \/ rs = <<>>
    \/ /\ from <= rs[1].lo
       /\ rs[1].lo <= rs[1].hi
       /\ InOrder(Tail(rs), rs[1].hi)

\* C8: the instructions of a method call's receiver precede those of every
\* argument, the arguments' instructions follow in argument order and the
\* call comes after them all; the instructions of an assignment's
\* right-hand side precede its store.
C8_EvaluationOrder ==
    /\ \A c \in Range(hist.h_call) :
          /\ InOrder(<<c.recv>> \o c.args, 1)
          /\ c.args = <<>> \/ c.args[Len(c.args)].hi <= c.call
          /\ c.recv.hi <= c.call
          /\ Emitted(c.call) /\ InstOf(c.call).op = "call"
    /\ \A a \in Range(hist.h_assign) :
          /\ a.lo <= a.hi
          /\ a.hi <= a.store
          /\ Emitted(a.store) /\ InstOf(a.store).op \in {"store", "ivar_store"}

\* a call with two arguments and an assignment, each sub-expression of
\* which emitted instructions
C8_Witness ==
    /\ \E c \in Range(hist.h_call) :
          /\ Len(c.args) = 2
          /\ c.recv.lo < c.recv.hi
          /\ \A i \in 1..2 : c.args[i].lo < c.args[i].hi
    /\ \E a \in Range(hist.h_assign) : a.lo < a.hi
    /\ outcome.kind = "Ok"

(* ------------------------------ C9 ------------------------------------ *)
\* the conditional branch of block k is taken to `then` exactly when the
\* boxed Bool v is true: it tests unbox_bool(v) = 1
BranchesOnTruthOf(k, v, then, els) ==
    \E j \in Terminators(k) :
        LET br == InstsOf(k)[j]
        IN  /\ br.op = "condbr"
            /\ br.tgts = <<then, els>>
            /\ br.ops[1].kind = "inst" /\ Emitted(br.ops[1].n)
            /\ LET cmp == InstOf(br.ops[1].n)
               IN  /\ cmp.op = "icmp_eq"
                   /\ cmp.ops[2] = const_int(i1_type, 1)
                   /\ cmp.ops[1].kind = "inst" /\ Emitted(cmp.ops[1].n)
                   /\ InstOf(cmp.ops[1].n).op = "unbox_bool"
                   /\ InstOf(cmp.ops[1].n).ops = <<v>>

\* C9: the block on which the left operand of an `and` ended branches to
\* AndMore when the left value is true and to AndEnd when it is false,
\* nothing else branches to AndMore, and the phi of AndEnd has exactly the
\* pairs (left value, that block) and (right value, the block on which
\* the right operand ended).
C9_AndShortCircuit ==
    \A ev \in Range(hist.h_and) :
        /\ BranchesOnTruthOf(ev.left_end, ev.left, ev.more, ev.merge)
        /\ Preds(ev.more) = {ev.left_end}
        /\ Preds(ev.merge) = {ev.left_end, ev.right_end}
        /\ Cardinality(Phis(ev.merge)) = 1
        /\ Emitted(ev.phi)
        /\ PlaceOf(ev.phi)[1] = ev.merge
        /\ InstOf(ev.phi).op = "phi"
        /\ InstOf(ev.phi).ops = <<ev.left, ev.right>>
        /\ InstOf(ev.phi).tgts = <<ev.left_end, ev.right_end>>

\* an `and` whose left operand ended on a block other than AndBegin and
\* whose right operand ended on a block other than AndMore
C9_Witness ==
    /\ \E ev \in Range(hist.h_and) :
          /\ builder.blocks[ev.left_end].name # "AndBegin"
          /\ builder.blocks[ev.right_end].name # "AndMore"
    /\ outcome.kind = "Ok"

(* ------------------------------ C10 ----------------------------------- *)
\* C10: meta_name(c) is "Meta:" followed by c, is_meta holds of it, to_ty
\* of it is the metaclass type of c, and to_ty(c) is the instance type of
\* c when c does not start with "Meta:".
C10_MetaNameRoundTrip ==
    /\ npc \in {"named", "tested", "meta_typed"} =>
           /\ Len(meta) = Len(fullname) + 5
           /\ SubSeq(meta, 1, 5) = "Meta:"
           /\ SubSeq(meta, 6, Len(meta)) = fullname
    /\ npc \in {"tested", "meta_typed"} => ismeta
    /\ npc = "meta_typed" => termty = class_ty(fullname)
    /\ (npc = "typed" /\ ~starts_with(fullname, "Meta:")) =>
           termty = instance_ty(fullname)

\* the round trip of a name that is itself a metaclass name
C10_Witness ==
    /\ npc = "meta_typed"
    /\ starts_with(fullname, "Meta:")
    /\ termty.base = fullname

(* ------------------------------ C11 ----------------------------------- *)
\* C11: the block on which the left operand of an `or` ended branches to
\* OrEnd when the left value is true and to OrElse when it is false,
\* nothing else branches to OrElse, so the code of the right operand is
\* entered only from there, and the phi of OrEnd has exactly the pairs
\* (left value, that block) and (right value, the block on which the
\* right operand ended).
C11_OrShortCircuit ==
    \A ev \in Range(hist.h_or) :
        /\ BranchesOnTruthOf(ev.left_end, ev.left, ev.merge, ev.els)
        /\ Preds(ev.els) = {ev.left_end}
        /\ Preds(ev.merge) = {ev.left_end, ev.right_end}
        /\ builder.blocks[ev.els].name = "OrElse"
        /\ builder.blocks[ev.merge].name = "OrEnd"
        /\ Cardinality(Phis(ev.merge)) = 1
        /\ Emitted(ev.phi)
        /\ PlaceOf(ev.phi)[1] = ev.merge
        /\ InstOf(ev.phi).op = "phi"
        /\ InstOf(ev.phi).ops = <<ev.left, ev.right>>
        /\ InstOf(ev.phi).tgts = <<ev.left_end, ev.right_end>>

\* an `or` whose left operand ended on a block other than OrBegin and
\* whose right operand ended on a block other than OrElse
C11_Witness ==
    /\ \E ev \in Range(hist.h_or) :
          /\ builder.blocks[ev.left_end].name # "OrBegin"
          /\ builder.blocks[ev.right_end].name # "OrElse"
    /\ outcome.kind = "Ok"

(* ------------------------------ C12 ----------------------------------- *)
\* C12: once the lowering of an expression has answered Err, only the
\* expressions that enclose it answer after it, each with the same Err,
\* and none of them builds an instruction or appends a block: no later
\* expression of a sequence and no later argument is lowered, no call,
\* alloca, store, branch or phi is built, and the lowering of the body
\* ends with that Err.
C12_ErrorAbortsLowering ==
    \A i \in DOMAIN hist.h_expr :
        hist.h_expr[i].kind = "Err" =>
            /\ \A j \in (i + 1)..Len(hist.h_expr) :
                  /\ hist.h_expr[j].before < i
                  /\ hist.h_expr[j].kind = "Err"
                  /\ hist.h_expr[j].msg = hist.h_expr[i].msg
                  /\ hist.h_expr[j].hi = hist.h_expr[i].hi
                  /\ hist.h_expr[j].blocks = hist.h_expr[i].blocks
            /\ outcome.kind = "Err"
            /\ outcome.msg = hist.h_expr[i].msg
            /\ builder.next = hist.h_expr[i].hi
            /\ Len(builder.blocks) = hist.h_expr[i].blocks

\* a method call whose first of two arguments answered Err, in a body that
\* has a later expression
C12_Witness ==
    /\ outcome.kind = "Err"
    /\ pos <= Len(exprs)
    /\ exprs[pos - 1].node = "HirMethodCall"
    /\ Len(exprs[pos - 1].b) = 2
    /\ exprs[pos - 1].b[1].node = "HirIfExpression"
    /\ \E i \in DOMAIN hist.h_expr :
          /\ hist.h_expr[i].node = "HirBreakExpression"
          /\ hist.h_expr[i].kind = "Err"
          /\ hist.h_expr[Len(hist.h_expr)].node = "HirMethodCall"
          /\ hist.h_expr[Len(hist.h_expr)].hi > hist.h_expr[Len(hist.h_expr)].lo

(* ------------------------------ C13 ----------------------------------- *)
\* the decimal numeral of k
Numeral(k) == CASE k = 0 -> "0" [] k = 1 -> "1" [] k = 2 -> "2" [] k = 3 -> "3"

\* C13: a LambdaExpr of n >= 1 params declares a function of exactly n
\* parameters, the first n - 1 of type Object* and the last the array of
\* Object, and its value is the result of the call of Meta:Fn<n-1>#new
\* whose receiver is a load of the constant ::Fn<n-1> and whose arguments
\* are the declared function bitcast to i8* and the value the captures
\* array was lowered to.
C13_LambdaMakesFn ==
    \A ev \in Range(hist.h_lambda) :
        ev.params >= 1 =>
            LET d == decls[ev.decl]
                k == ev.params - 1
            IN  /\ d.name = ev.func_name
                /\ Len(d.params) = ev.params
                /\ \A i \in 1..k : d.params[i] = llvm_type(ty_raw("Object"))
                /\ d.params[ev.params] = llvm_type(ty_ary(ty_raw("Object")))
                /\ ev.val.kind = "inst" /\ Emitted(ev.val.n)
                /\ LET call == InstOf(ev.val.n)
                   IN  /\ call.op = "call"
                       /\ call.name = "Meta:Fn" \o Numeral(k) \o "#new"
                       /\ Len(call.ops) = 3
                       /\ call.ops[1].kind = "inst" /\ Emitted(call.ops[1].n)
                       /\ InstOf(call.ops[1].n).op = "load"
                       /\ InstOf(call.ops[1].n).name = "::Fn" \o Numeral(k)
                       /\ call.ops[2].kind = "inst" /\ Emitted(call.ops[2].n)
                       /\ InstOf(call.ops[2].n).op = "bitcast"
                       /\ InstOf(call.ops[2].n).ty = i8ptr_type
                       /\ InstOf(call.ops[2].n).ops[1].kind = "function"
                       /\ InstOf(call.ops[2].n).ops[1].n = ev.decl
                       /\ call.ops[3] = ev.captures

\* a lambda of two or more params made into its Fn object
C13_Witness ==
    /\ outcome.kind = "Ok"
    /\ \E ev \in Range(hist.h_lambda) : ev.params >= 2 /\ ev.captures.kind = "inst"

(* ------------------------------ C14 ----------------------------------- *)
\* the machine type of a declared Int and of a declared Float
DeclaredMachine(name) ==
    CASE name = "Int" -> Machine("i32")
      [] name = "Float" -> Machine("f64")

\* C14: the value a built-in method of Int or Float returns has the
\* machine type of the method's declared return type, i32 for Int and f64
\* for Float: both the value its body hands to the return instruction and
\* the value a call of it gives.
C14_BuiltinReturnsDeclaredType ==
    /\ spc \in {"built", "called"} =>
           /\ body[Len(body)].op = "ret"
           /\ body[Len(body)].ops[1].ty = DeclaredMachine(method.ret)
    /\ spc = "called" => retval.ty = DeclaredMachine(method.ret)

====
